---- MODULE Spec2Model ----
(***************************************************************************)
(* A model of the reusable core of the aoc-2022 support library:           *)
(*   - src/src/astar.rs   AStar::find_path and AStar::reconstruct_path     *)
(*   - src/src/bitmap.rs  Bitmap::new / parse / set / index                *)
(*   - src/day-12/src/main.rs  run_a_star, the only caller of AStar        *)
(*                                                                         *)
(* Nodes are pairs <<x, y>>, the (i32, i32) instantiation of day 12, with  *)
(* the derived lexicographic Ord.  Edge weights and g-scores are naturals  *)
(* (exactly representable in f32).  A heuristic value k stands for the     *)
(* real number sqrt(k), which covers day 12's Euclidean distance exactly;  *)
(* an f-score is the pair [g, h2] standing for g + sqrt(h2).               *)
(*                                                                         *)
(* Three specifications: SpecAStar runs find_path on arbitrary small       *)
(* weighted graphs, SpecHills runs day 12's run_a_star on parsed           *)
(* heightmaps, SpecBitmap applies the Bitmap operations.                   *)
(***************************************************************************)
EXTENDS Integers, Sequences, FiniteSets, TLC

VARIABLES
    \* AStar's fields (astar.rs 9-15)
    start, goal, heuristic, visit_neighbors,
    \* find_path's locals (astar.rs 32-38)
    open_set, came_from, g_score, f_score,
    \* the loop's position: the selected node, the neighbour visits the
    \* callback has yet to report, reconstruct_path's accumulator
    current, pending, total_path, pc, result,
    \* the nodes the heuristic has been called with, in order
    h_calls,
    \* Bitmap's fields (bitmap.rs 7-12)
    elements, width, height, out_of_bounds,
    \* the parser Bitmap::parse hands back, and the last Bitmap operation
    \* applied with what it returned
    parser, op,
    \* the CLI harness (lib.rs): the files, the position in them, what was run
    \* and logged, the exit status
    harness,
    \* day 14: the Cave's has_floor, simulate's position and SimulationStats,
    \* do_part's loop; the Cave's bitmap is the Bitmap above
    cave,
    \* day 9: the Rope's knots
    rope

astar_vars == <<start, goal, heuristic, visit_neighbors, open_set, came_from,
                g_score, f_score, current, pending, total_path, pc, result,
                h_calls>>
bitmap_vars == <<elements, width, height, out_of_bounds>>
day_vars == <<harness, cave, rope>>
vars == <<astar_vars, bitmap_vars, parser, op, day_vars>>

----------------------------------------------------------------------------
(* Bounds of the model *)

\* generic graphs have the nodes number 0..MaxNode of a two-row layout
MaxNode == 2
\* edge weights are drawn from 0..MaxWeight
MaxWeight == 1
\* the neighbour callback of a generic graph reports at most MaxEdges edges
MaxEdges == 3
\* heuristic values of a generic graph are sqrt(k), k in 0..MaxH2
MaxH2 == 1

----------------------------------------------------------------------------
(* Bitmap *)

\* bounds of the Bitmap model
\* Bitmap::new is called with width and height in 0..MaxDim
MaxDim == 2
\* cell values are drawn from 0..MaxValue
MaxValue == 1
\* parsed texts have at most MaxText characters
MaxText == 3
\* and, where parse is the only operation, at most MaxLongText characters
MaxLongText == 5

\* characters are Unicode code points
CharA == 97
CharZ == 122
CharS == 83
CharE == 69
LF == 10

\* u32 as i32: the identity below 2^31, and widths and heights stay below it
AsI32(u) == u

\* an index with the roles of x and y exchanged
FlattenIndexSwapped(w, pos) == pos[2] + pos[1] * AsI32(w)

\* Bitmap::flatten_index, for the coordinates is_in_bounds accepts
FlattenIndex(w, pos) == pos[1] + pos[2] * AsI32(w)

\* a bounds check that forgets the upper limit of x
IsInBoundsNoXLimit(w, h, pos) ==
    pos[1] >= 0 /\ pos[2] >= 0 /\ pos[2] < AsI32(h)

\* Bitmap::is_in_bounds
IsInBounds(w, h, pos) ==
    pos[1] >= 0 /\ pos[1] < AsI32(w) /\ pos[2] >= 0 /\ pos[2] < AsI32(h)

\* an enumeration with x outer and y inner
PositionsColumnMajor(w, h) ==
    [i \in 1..(w * h) |-> <<(i - 1) \div h, (i - 1) % h>>]

\* Bitmap::positions: row-major, y outer
Positions(w, h) == [i \in 1..(w * h) |-> <<(i - 1) % w, (i - 1) \div w>>]

\* Index<(i32, i32)>::index on a bitmap whose storage covers the index
IndexOf(els, w, h, oob, pos) ==
    IF IsInBounds(w, h, pos) THEN els[FlattenIndex(w, pos) + 1] ELSE oob

\* Index<(i32, i32)>::index with Vec's own bounds check: the value read, or
\* the panic of an index past the end of the storage
ReadAt(els, w, h, oob, pos) ==
    IF IsInBounds(w, h, pos)
    THEN IF FlattenIndex(w, pos) < Len(els)
         THEN [ret |-> "Ok", value |-> els[FlattenIndex(w, pos) + 1]]
         ELSE [ret |-> "panic", value |-> 0]
    ELSE [ret |-> "Ok", value |-> oob]

\* the operation record: name, position, the value written or read, the
\* outcome ("Ok", "Err" or "panic") and, for parse, the text and the error
NoErr == [kind |-> "none", width |-> 0, line |-> <<>>, char |-> 0]
\* as well as the calls of parse_element it made, each <<position, character>>,
\* and, for positions, the coordinates the iterator yielded
NoOp == [name |-> "none", pos |-> <<0, 0>>, value |-> 0, ret |-> "Ok",
         text |-> <<>>, err |-> NoErr, calls |-> <<>>, yielded |-> <<>>]
NoParser == [kind |-> "none", start |-> <<>>, goal |-> <<>>]

\* str::lines: the text split at line feeds, a final empty piece dropped
\* (texts hold no carriage return: the harness replaces CR LF by LF)
RECURSIVE SplitLF(_, _, _)
SplitLF(text, i, cur) ==
    IF i > Len(text) THEN <<cur>>
    ELSE IF text[i] = LF THEN <<cur>> \o SplitLF(text, i + 1, <<>>)
         ELSE SplitLF(text, i + 1, Append(cur, text[i]))

Lines(text) ==
    LET segs == SplitLF(text, 1, <<>>)
    IN IF segs[Len(segs)] = <<>> THEN SubSeq(segs, 1, Len(segs) - 1) ELSE segs

\* char::len_utf8
Utf8Len(c) == IF c < 128 THEN 1 ELSE IF c < 2048 THEN 2 ELSE IF c < 65536 THEN 3 ELSE 4

\* str::len: the length in bytes
RECURSIVE ByteLen(_)
ByteLen(line) == IF line = <<>> THEN 0 ELSE Utf8Len(Head(line)) + ByteLen(Tail(line))

\* a parser that keeps the first marker it met
Day12ParseElementFirstMarker(p, pos, c) ==
    LET c2 == IF c = CharS THEN CharA ELSE IF c = CharE THEN CharZ ELSE c
    IN [some |-> TRUE,
        value |-> (c2 % 256) - CharA,
        parser |-> [p EXCEPT !.start = IF c = CharS /\ @ = <<>> THEN pos ELSE @,
                             !.goal = IF c = CharE /\ @ = <<>> THEN pos ELSE @]]

\* day 12's Parser::parse_element: 'S' and 'E' are recorded and read as 'a'
\* and 'z'; the element is c as u8 - b'a' (no character below 'a' is drawn)
Day12ParseElement(p, pos, c) ==
    LET c2 == IF c = CharS THEN CharA ELSE IF c = CharE THEN CharZ ELSE c
    IN [some |-> TRUE,
        value |-> (c2 % 256) - CharA,
        parser |-> [p EXCEPT !.start = IF c = CharS THEN pos ELSE @,
                             !.goal = IF c = CharE THEN pos ELSE @]]

\* a partial mapping: 'a' -> 0, 'b' -> 1, no element for any other character
TableParseElement(p, pos, c) ==
    [some |-> c \in {CharA, CharA + 1}, value |-> c - CharA, parser |-> p]

\* BitmapParser::parse_element
ParseElement(p, pos, c) ==
    IF p.kind = "day12" THEN Day12ParseElement(p, pos, c)
    ELSE TableParseElement(p, pos, c)

\* the inner loop of Bitmap::parse over the characters of line y, from x on
RECURSIVE ParseChars(_, _, _, _)
ParseChars(st, line, x, y) ==
    IF x >= Len(line) THEN st
    ELSE LET r == ParseElement(st.parser, <<x, y>>, line[x + 1])
         IN IF r.some
            THEN ParseChars([st EXCEPT !.elements = Append(@, r.value),
                                       !.parser = r.parser,
                                       !.calls = Append(@, <<(<<x, y>>), line[x + 1]>>)],
                            line, x + 1, y)
            ELSE [st EXCEPT !.parser = r.parser,
                            !.calls = Append(@, <<(<<x, y>>), line[x + 1]>>),
                            !.err = [kind |-> "element", width |-> 0, line |-> <<>>,
                                     char |-> line[x + 1]]]

\* an outer loop that compares the width after the line's characters
RECURSIVE ParseLinesLateCheck(_, _, _)
ParseLinesLateCheck(st, lines, y) ==
    IF y >= Len(lines) THEN st
    ELSE LET line == lines[y + 1]
             st2 == ParseChars(st, line, 0, y)
         IN IF st2.err.kind # "none" THEN st2
            ELSE IF st.width # -1 /\ ByteLen(line) # st.width
            THEN [st2 EXCEPT !.err = [kind |-> "width", width |-> st.width,
                                      line |-> line, char |-> 0]]
            ELSE ParseLinesLateCheck([st2 EXCEPT !.width = ByteLen(line),
                                                 !.height = @ + 1],
                                     lines, y + 1)

\* the outer loop of Bitmap::parse over the lines, from line y on; width -1
\* is None
RECURSIVE ParseLines(_, _, _)
ParseLines(st, lines, y) ==
    IF y >= Len(lines) THEN st
    ELSE LET line == lines[y + 1]
         IN IF st.width # -1 /\ ByteLen(line) # st.width
            THEN [st EXCEPT !.err = [kind |-> "width", width |-> st.width,
                                     line |-> line, char |-> 0]]
            ELSE LET st2 == ParseChars(st, line, 0, y)
                 IN IF st2.err.kind # "none" THEN st2
                    ELSE ParseLines([st2 EXCEPT !.width = ByteLen(line),
                                                !.height = @ + 1],
                                    lines, y + 1)

\* Bitmap::parse: Ok((Bitmap, parser)) or Err
Parse(p, text) ==
    LET st == ParseLines([width |-> -1, height |-> 0, elements |-> <<>>,
                          parser |-> p, calls |-> <<>>, err |-> NoErr],
                         Lines(text), 0)
    IN [ok |-> st.err.kind = "none",
        width |-> IF st.width = -1 THEN 0 ELSE st.width,
        height |-> st.height,
        elements |-> st.elements,
        out_of_bounds |-> 0,
        parser |-> st.parser,
        calls |-> st.calls,
        err |-> st.err]

\* the characters texts are made of: a, b, S, E, e-acute (two bytes), LF
Alphabet == {CharA, CharA + 1, CharS, CharE, 233, LF}
Texts == UNION {[1..n -> Alphabet] : n \in 0..MaxText}
LongTexts == UNION {[1..n -> Alphabet] : n \in 0..MaxLongText}
Parsers == {[kind |-> k, start |-> <<>>, goal |-> <<>>] :
               k \in {"day12", "table"}}
Values == 0..MaxValue
Coords == (-1..MaxDim) \X (-1..MaxDim)

\* a bitmap exists and the process has not panicked
Constructed ==
    /\ op.name # "none"
    /\ op.name = "parse" => op.ret = "Ok"
    /\ op.ret # "panic"

\* a constructor that takes the sentinel from Default, as parse does
BitmapNewDefaultSentinel ==
    /\ op.name = "none"
    /\ \E w \in 0..MaxDim, h \in 0..MaxDim, blank \in Values :
          /\ elements' = [i \in 1..(w * h) |-> blank]
          /\ width' = w
          /\ height' = h
          /\ out_of_bounds' = 0
          /\ op' = [NoOp EXCEPT !.name = "new", !.value = blank]
    /\ UNCHANGED <<astar_vars, parser, day_vars>>

\* Bitmap::new; width * height stays far below 2^32
BitmapNew ==
    /\ op.name = "none"
    /\ \E w \in 0..MaxDim, h \in 0..MaxDim, blank \in Values :
          /\ elements' = [i \in 1..(w * h) |-> blank]
          /\ width' = w
          /\ height' = h
          /\ out_of_bounds' = blank
          /\ op' = [NoOp EXCEPT !.name = "new", !.value = blank]
    /\ UNCHANGED <<astar_vars, parser, day_vars>>

\* Bitmap::parse of one of texts
BitmapParseOf(texts) ==
    /\ op.name = "none"
    /\ \E p \in Parsers, text \in texts :
          LET r == Parse(p, text)
          IN IF r.ok
             THEN /\ elements' = r.elements
                  /\ width' = r.width
                  /\ height' = r.height
                  /\ out_of_bounds' = r.out_of_bounds
                  /\ parser' = r.parser
                  /\ op' = [NoOp EXCEPT !.name = "parse", !.text = text,
                                        !.calls = r.calls]
             ELSE /\ parser' = r.parser
                  /\ op' = [NoOp EXCEPT !.name = "parse", !.text = text,
                                        !.ret = "Err", !.err = r.err,
                                        !.calls = r.calls]
                  /\ UNCHANGED bitmap_vars
    /\ UNCHANGED <<astar_vars, day_vars>>

BitmapParse == BitmapParseOf(Texts)

BitmapParseLong == BitmapParseOf(LongTexts)

\* a set that also takes the written value as the new sentinel
BitmapSetTouchesSentinel ==
    /\ Constructed
    /\ \E pos \in Coords, v \in Values :
          IF IsInBounds(width, height, pos)
          THEN IF FlattenIndex(width, pos) < Len(elements)
               THEN /\ elements' = [elements EXCEPT ![FlattenIndex(width, pos) + 1] = v]
                    /\ out_of_bounds' = v
                    /\ op' = [NoOp EXCEPT !.name = "set", !.pos = pos, !.value = v]
               ELSE /\ op' = [NoOp EXCEPT !.name = "set", !.pos = pos, !.value = v,
                                          !.ret = "panic"]
                    /\ UNCHANGED <<elements, out_of_bounds>>
          ELSE /\ op' = [NoOp EXCEPT !.name = "set", !.pos = pos, !.value = v,
                                     !.ret = "Err"]
               /\ UNCHANGED <<elements, out_of_bounds>>
    /\ UNCHANGED <<astar_vars, width, height, parser, day_vars>>

\* Bitmap::set
BitmapSet ==
    /\ Constructed
    /\ \E pos \in Coords, v \in Values :
          IF IsInBounds(width, height, pos)
          THEN IF FlattenIndex(width, pos) < Len(elements)
               THEN /\ elements' = [elements EXCEPT ![FlattenIndex(width, pos) + 1] = v]
                    /\ op' = [NoOp EXCEPT !.name = "set", !.pos = pos, !.value = v]
               ELSE /\ op' = [NoOp EXCEPT !.name = "set", !.pos = pos, !.value = v,
                                          !.ret = "panic"]
                    /\ UNCHANGED elements
          ELSE /\ op' = [NoOp EXCEPT !.name = "set", !.pos = pos, !.value = v,
                                     !.ret = "Err"]
               /\ UNCHANGED elements
    /\ UNCHANGED <<astar_vars, width, height, out_of_bounds, parser, day_vars>>

\* bitmap[(x, y)]
BitmapIndex ==
    /\ Constructed
    /\ \E pos \in Coords :
          LET r == ReadAt(elements, width, height, out_of_bounds, pos)
          IN op' = [NoOp EXCEPT !.name = "index", !.pos = pos, !.value = r.value,
                                !.ret = r.ret]
    /\ UNCHANGED <<astar_vars, bitmap_vars, parser, day_vars>>

\* bitmap.positions(), collected
BitmapPositions ==
    /\ Constructed
    /\ op' = [NoOp EXCEPT !.name = "positions", !.yielded = Positions(width, height)]
    /\ UNCHANGED <<astar_vars, bitmap_vars, parser, day_vars>>

NextBitmap ==
    \/ BitmapNew
    \/ BitmapParse
    \/ BitmapSet
    \/ BitmapIndex
    \/ BitmapPositions

----------------------------------------------------------------------------
(* Nodes *)

\* the i-th node of a generic graph, in increasing lexicographic order
NodeAt(i) == <<i \div 2, i % 2>>
GraphNodes == {NodeAt(i) : i \in 0..MaxNode}

\* (i32, i32): Ord, derived: lexicographic
NodeLess(a, b) == a[1] < b[1] \/ (a[1] = b[1] /\ a[2] < b[2])

\* Iterator::min over one iteration order of the frontier: a fold that keeps
\* the accumulator unless it is greater than the next element
RECURSIVE MinFold(_, _, _)
MinFold(acc, order, i) ==
    IF i > Len(order) THEN acc
    ELSE MinFold(IF NodeLess(order[i], acc) THEN order[i] ELSE acc, order, i + 1)

\* a selection that takes whatever the set yields first
IterFirst(order) == order[1]

IterMin(order) == MinFold(order[1], order, 2)

\* g1 + sqrt(a) <= g2 + sqrt(b), in integers
FLe(f1, f2) ==
    LET d == f2.g - f1.g
        a == f1.h2
        b == f2.h2
    IN IF d >= 0
       THEN \/ a - d * d - b <= 0
            \/ (a - d * d - b) * (a - d * d - b) <= 4 * d * d * b
       ELSE /\ b - a - d * d >= 0
            /\ 4 * d * d * a <= (b - a - d * d) * (b - a - d * d)

\* a selection of the node of least f-score, the smallest such node on a tie
SelectedMinF(order, fs) ==
    LET S == {order[i] : i \in 1..Len(order)}
    IN CHOOSE n \in S :
          \A m \in S : /\ FLe(fs[n], fs[m])
                       /\ FLe(fs[m], fs[n]) => (n = m \/ NodeLess(n, m))

\* open_set.iter().min(): the scores in fs play no part in it
Selected(order, fs) == IterMin(order)

\* the orders in which a HashSet may yield its elements
IterOrders(S) ==
    {o \in [1..Cardinality(S) -> S] : \A i, j \in 1..Cardinality(S) : i # j => o[i] # o[j]}

\* one fixed iteration order: ascending
RECURSIVE SortedOrder(_)
SortedOrder(S) ==
    IF S = {} THEN <<>>
    ELSE LET m == CHOOSE a \in S : \A b \in S : a = b \/ NodeLess(a, b)
         IN <<m>> \o SortedOrder(S \ {m})

----------------------------------------------------------------------------
(* find_path, step by step *)

\* Option<Vec<Node>> and the outcomes that are not a return value
Pending == [tag |-> "pending", path |-> <<>>]
None == [tag |-> "None", path |-> <<>>]
Some(p) == [tag |-> "Some", path |-> p]
Panic == [tag |-> "panic", path |-> <<>>]

\* a relaxation that records every reported neighbour
ImprovesAlways(tentative, g, neighbor) == TRUE

\* a relaxation that also takes a tentative score equal to the known one
ImprovesOrEqual(tentative, g, neighbor) ==
    neighbor \notin DOMAIN g \/ tentative <= g[neighbor]

\* tentative_g_score < g_score.get(neighbor).copied().unwrap_or(f32::INFINITY)
Improves(tentative, g, neighbor) ==
    neighbor \notin DOMAIN g \/ tentative < g[neighbor]

\* a closure that forgets g_score.insert
VisitNoGScore(st, cur, neighbor, weight, h) ==
    LET tentative_g_score == st.g_score[cur] + weight
    IN IF Improves(tentative_g_score, st.g_score, neighbor)
       THEN [open_set |-> st.open_set \cup {neighbor},
             came_from |-> (neighbor :> cur) @@ st.came_from,
             g_score |-> st.g_score,
             f_score |-> (neighbor :> [g |-> tentative_g_score, h2 |-> h[neighbor]])
                            @@ st.f_score,
             h_calls |-> Append(st.h_calls, neighbor)]
       ELSE st

\* a closure that forgets open_set.insert
VisitNoAdmit(st, cur, neighbor, weight, h) ==
    LET tentative_g_score == st.g_score[cur] + weight
    IN IF Improves(tentative_g_score, st.g_score, neighbor)
       THEN [open_set |-> st.open_set,
             came_from |-> (neighbor :> cur) @@ st.came_from,
             g_score |-> (neighbor :> tentative_g_score) @@ st.g_score,
             f_score |-> (neighbor :> [g |-> tentative_g_score, h2 |-> h[neighbor]])
                            @@ st.f_score,
             h_calls |-> Append(st.h_calls, neighbor)]
       ELSE st

\* a closure that evaluates the heuristic before the comparison
VisitHeuristicEveryReport(st, cur, neighbor, weight, h) ==
    LET tentative_g_score == st.g_score[cur] + weight
    IN IF Improves(tentative_g_score, st.g_score, neighbor)
       THEN [open_set |-> st.open_set \cup {neighbor},
             came_from |-> (neighbor :> cur) @@ st.came_from,
             g_score |-> (neighbor :> tentative_g_score) @@ st.g_score,
             f_score |-> (neighbor :> [g |-> tentative_g_score, h2 |-> h[neighbor]])
                            @@ st.f_score,
             h_calls |-> Append(st.h_calls, neighbor)]
       ELSE [st EXCEPT !.h_calls = Append(@, neighbor)]

\* a closure that records the predecessor before the comparison
VisitAlwaysLinks(st, cur, neighbor, weight, h) ==
    LET tentative_g_score == st.g_score[cur] + weight
    IN IF Improves(tentative_g_score, st.g_score, neighbor)
       THEN [open_set |-> st.open_set \cup {neighbor},
             came_from |-> (neighbor :> cur) @@ st.came_from,
             g_score |-> (neighbor :> tentative_g_score) @@ st.g_score,
             f_score |-> (neighbor :> [g |-> tentative_g_score, h2 |-> h[neighbor]])
                            @@ st.f_score,
             h_calls |-> Append(st.h_calls, neighbor)]
       ELSE [st EXCEPT !.came_from = (neighbor :> cur) @@ @]

\* the closure passed to visit_neighbors, applied to one (neighbor, weight)
Visit(st, cur, neighbor, weight, h) ==
    LET tentative_g_score == st.g_score[cur] + weight
    IN IF Improves(tentative_g_score, st.g_score, neighbor)
       THEN [open_set |-> st.open_set \cup {neighbor},
             came_from |-> (neighbor :> cur) @@ st.came_from,
             g_score |-> (neighbor :> tentative_g_score) @@ st.g_score,
             f_score |-> (neighbor :> [g |-> tentative_g_score, h2 |-> h[neighbor]])
                            @@ st.f_score,
             h_calls |-> Append(st.h_calls, neighbor)]
       ELSE st

SearchState == [open_set |-> open_set, came_from |-> came_from,
                g_score |-> g_score, f_score |-> f_score, h_calls |-> h_calls]

\* a setup that forgets g_score.insert(start, 0.0)
FindPathInitNoGScore ==
    /\ open_set = {start}
    /\ came_from = <<>>
    /\ g_score = <<>>
    /\ f_score = (start :> [g |-> 0, h2 |-> heuristic[start]])
    /\ h_calls = <<start>>
    /\ current = start
    /\ pending = <<>>
    /\ total_path = <<>>
    /\ pc = "loop"
    /\ result = Pending

\* find_path up to the loop: the frontier holds start, g[start] = 0
FindPathInit ==
    /\ open_set = {start}
    /\ came_from = <<>>
    /\ g_score = (start :> 0)
    /\ f_score = (start :> [g |-> 0, h2 |-> heuristic[start]])
    /\ h_calls = <<start>>
    /\ current = start
    /\ pending = <<>>
    /\ total_path = <<>>
    /\ pc = "loop"
    /\ result = Pending

\* a loop body without the goal test
SelectNoGoalTest ==
    /\ pc = "loop"
    /\ open_set # {}
    /\ \E order \in IterOrders(open_set) :
          LET cur == IterMin(order)
          IN /\ current' = cur
             /\ pc' = "visit"
             /\ open_set' = open_set \ {cur}
             /\ pending' = visit_neighbors[cur]
    /\ UNCHANGED <<start, goal, heuristic, visit_neighbors, came_from, g_score,
                   f_score, total_path, result, h_calls, bitmap_vars, parser, op, day_vars>>

\* while !open_set.is_empty(): select the minimum, test for the goal, remove
\* it from the frontier and call visit_neighbors on it
Select ==
    /\ pc = "loop"
    /\ open_set # {}
    /\ \E order \in IterOrders(open_set) :
          LET cur == Selected(order, f_score)
          IN /\ current' = cur
             /\ IF cur = goal
                THEN /\ pc' = "reconstruct"
                     /\ UNCHANGED <<open_set, pending>>
                ELSE /\ pc' = "visit"
                     /\ open_set' = open_set \ {cur}
                     /\ pending' = visit_neighbors[cur]
    /\ UNCHANGED <<start, goal, heuristic, visit_neighbors, came_from, g_score,
                   f_score, total_path, result, h_calls, bitmap_vars, parser, op, day_vars>>

\* one call of the closure by the neighbour callback
VisitNeighbor ==
    /\ pc = "visit"
    /\ pending # <<>>
    /\ IF current \notin DOMAIN g_score
       THEN /\ pc' = "done"
            /\ result' = Panic
            /\ UNCHANGED <<open_set, came_from, g_score, f_score, pending, h_calls>>
       ELSE LET st == Visit(SearchState, current, Head(pending)[1], Head(pending)[2],
                            heuristic)
            IN /\ open_set' = st.open_set
               /\ came_from' = st.came_from
               /\ g_score' = st.g_score
               /\ f_score' = st.f_score
               /\ h_calls' = st.h_calls
               /\ pending' = Tail(pending)
               /\ UNCHANGED <<pc, result>>
    /\ UNCHANGED <<start, goal, heuristic, visit_neighbors, current, total_path,
                   bitmap_vars, parser, op, day_vars>>

\* the neighbour callback returns: back to the loop's test
EndVisit ==
    /\ pc = "visit"
    /\ pending = <<>>
    /\ pc' = "loop"
    /\ UNCHANGED <<start, goal, heuristic, visit_neighbors, open_set, came_from,
                   g_score, f_score, current, pending, total_path, result, h_calls,
                   bitmap_vars, parser, op, day_vars>>

\* the loop ends with an empty frontier: None
ReturnNone ==
    /\ pc = "loop"
    /\ open_set = {}
    /\ pc' = "done"
    /\ result' = None
    /\ UNCHANGED <<start, goal, heuristic, visit_neighbors, open_set, came_from,
                   g_score, f_score, current, pending, total_path, h_calls,
                   bitmap_vars, parser, op, day_vars>>

\* Vec::reverse
RECURSIVE Reverse(_)
Reverse(s) == IF s = <<>> THEN <<>> ELSE Reverse(Tail(s)) \o <<Head(s)>>

\* one iteration of reconstruct_path's while loop
ReconstructStep ==
    /\ pc = "reconstruct"
    /\ current \in DOMAIN came_from
    /\ current' = came_from[current]
    /\ total_path' = Append(total_path, came_from[current])
    /\ UNCHANGED <<start, goal, heuristic, visit_neighbors, open_set, came_from,
                   g_score, f_score, pending, pc, result, h_calls, bitmap_vars,
                   parser, op, day_vars>>

\* a return that forgets total_path.reverse()
ReturnSomeNoReverse ==
    /\ pc = "reconstruct"
    /\ current \notin DOMAIN came_from
    /\ pc' = "done"
    /\ result' = Some(total_path)
    /\ UNCHANGED <<start, goal, heuristic, visit_neighbors, open_set, came_from,
                   g_score, f_score, current, pending, total_path, h_calls,
                   bitmap_vars, parser, op, day_vars>>

\* reconstruct_path's loop ends: reverse and return Some
ReturnSome ==
    /\ pc = "reconstruct"
    /\ current \notin DOMAIN came_from
    /\ pc' = "done"
    /\ result' = Some(Reverse(total_path))
    /\ UNCHANGED <<start, goal, heuristic, visit_neighbors, open_set, came_from,
                   g_score, f_score, current, pending, total_path, h_calls,
                   bitmap_vars, parser, op, day_vars>>

NextAStar ==
    \/ Select
    \/ VisitNeighbor
    \/ EndVisit
    \/ ReturnNone
    \/ ReconstructStep
    \/ ReturnSome

----------------------------------------------------------------------------
(* Generic graphs: the callback reports a fixed list of edges *)

NoEdge == <<>>
EdgeChoices ==
    {NoEdge} \cup {<<a, b, w>> : a \in GraphNodes, b \in GraphNodes, w \in 0..MaxWeight}

\* the (neighbor, weight) pairs the callback reports for node n, in order
RECURSIVE VisitsOf(_, _, _)
VisitsOf(es, n, i) ==
    IF i > Len(es) THEN <<>>
    ELSE IF es[i] # NoEdge /\ es[i][1] = n
         THEN <<(<<es[i][2], es[i][3]>>)>> \o VisitsOf(es, n, i + 1)
         ELSE VisitsOf(es, n, i + 1)

\* no file is run, no cave simulated, no rope moved
NoHarness == [pc |-> "idle"]
NoCave == [pc |-> "idle"]
NoRope == <<>>
NoDays ==
    /\ harness = NoHarness
    /\ cave = NoCave
    /\ rope = NoRope

NoBitmap ==
    /\ elements = <<>>
    /\ width = 0
    /\ height = 0
    /\ out_of_bounds = 0
    /\ parser = NoParser
    /\ op = NoOp

\* the callbacks that report at most MaxEdges edges in all
Callbacks ==
    {[n \in GraphNodes |-> VisitsOf(es, n, 1)] : es \in [1..MaxEdges -> EdgeChoices]}

InitAStar ==
    /\ start \in GraphNodes
    /\ goal \in GraphNodes
    /\ heuristic \in [GraphNodes -> 0..MaxH2]
    /\ visit_neighbors \in Callbacks
    /\ FindPathInit
    /\ NoBitmap
    /\ NoDays

SpecAStar == InitAStar /\ [][NextAStar]_vars

\* a sequential program takes its next step whenever it has one
FairSpecAStar == SpecAStar /\ WF_vars(NextAStar)

----------------------------------------------------------------------------
(* The graph the callback describes, and its shortest distances *)

Nodes == DOMAIN visit_neighbors

\* the edges <<a, b, w>> the callback reports
EdgeSet ==
    UNION {{<<a, visit_neighbors[a][i][1], visit_neighbors[a][i][2]>> :
              i \in 1..Len(visit_neighbors[a])} : a \in Nodes}

SetMin(S) == CHOOSE m \in S : \A x \in S : m <= x

\* one round of Bellman-Ford over the partial distance map d
RelaxOnce(d) ==
    LET cand(n) == (IF n \in DOMAIN d THEN {d[n]} ELSE {}) \cup
                   {d[e[1]] + e[3] : e \in {e \in EdgeSet : e[2] = n /\ e[1] \in DOMAIN d}}
    IN [n \in {m \in Nodes : cand(m) # {}} |-> SetMin(cand(n))]

RECURSIVE RelaxRounds(_, _)
RelaxRounds(d, k) == IF k = 0 THEN d ELSE RelaxRounds(RelaxOnce(d), k - 1)

\* the least total weight of a walk from s to each node it reaches
MinCosts(s) == RelaxRounds((s :> 0), Cardinality(Nodes))

Reachable(s, t) == t \in DOMAIN MinCosts(s)

\* sqrt(heuristic[n]) never exceeds the least remaining cost from n to goal
Admissible ==
    \A n \in Nodes :
        Reachable(n, goal) =>
            heuristic[n] <= MinCosts(n)[goal] * MinCosts(n)[goal]

\* the start-to-goal walk a returned sequence describes, whichever end it omits
Route(p) ==
    LET a == IF p # <<>> /\ p[1] = start THEN p ELSE <<start>> \o p
    IN IF a[Len(a)] = goal THEN a ELSE Append(a, goal)

IsWalk(r) ==
    \A i \in 1..(Len(r) - 1) : \E e \in EdgeSet : e[1] = r[i] /\ e[2] = r[i + 1]

RECURSIVE WalkCost(_)
WalkCost(r) ==
    IF Len(r) < 2 THEN 0
    ELSE SetMin({e[3] : e \in {e \in EdgeSet : e[1] = r[1] /\ e[2] = r[2]}})
         + WalkCost(Tail(r))

----------------------------------------------------------------------------
(* Claims about find_path *)

\* C1: with non-negative weights and an admissible heuristic, a returned path
\* has the minimum total weight over all start-to-goal paths.
C1_ReturnedPathIsOptimal ==
    (pc = "done" /\ result.tag = "Some" /\ Admissible) =>
        /\ IsWalk(Route(result.path))
        /\ WalkCost(Route(result.path)) = MinCosts(start)[goal]

\* C2: for start # goal a returned sequence omits start and ends with goal.
C2_PathOmitsStartEndsAtGoal ==
    (pc = "done" /\ result.tag = "Some" /\ start # goal) =>
        /\ result.path # <<>>
        /\ \A i \in 1..Len(result.path) : result.path[i] # start
        /\ result.path[Len(result.path)] = goal

\* C3: when goal is not reachable from start, find_path never panics and
\* returns None, with the frontier empty.
C3_UnreachableReturnsNone ==
    (result.tag = "panic" \/ pc = "done") =>
        (~Reachable(start, goal) => (pc = "done" /\ result = None /\ open_set = {}))

\* a finished search for an unreachable goal that expanded at least one edge
C3_Witness ==
    /\ pc = "done"
    /\ ~Reachable(start, goal)
    /\ result = None
    /\ came_from # <<>>

\* C5: on every finite graph with non-negative weights, cycles and zero-weight
\* edges included, find_path terminates; a recorded g-score is never raised.
C5_Terminates ==
    /\ <>(pc = "done")
    /\ [][\A n \in DOMAIN g_score :
             n \in DOMAIN g_score' /\ g_score'[n] <= g_score[n]]_vars

\* a finished search that expanded both nodes of a zero-weight cycle
C5_Witness ==
    /\ pc = "done"
    /\ \E a, b \in Nodes :
          /\ a # b
          /\ <<a, b, 0>> \in EdgeSet
          /\ <<b, a, 0>> \in EdgeSet
          /\ {a, b} \subseteq DOMAIN g_score
          /\ {a, b} \cap open_set = {}

\* the whole neighbour callback for one node
RECURSIVE ExpandAll(_, _, _, _)
ExpandAll(st, cur, visits, h) ==
    IF visits = <<>> THEN st
    ELSE ExpandAll(Visit(st, cur, Head(visits)[1], Head(visits)[2], h),
                   cur, Tail(visits), h)

\* reconstruct_path as a function; links bounds the walk
RECURSIVE PathBack(_, _, _)
PathBack(cf, cur, links) ==
    IF cur \notin DOMAIN cf \/ links = 0 THEN <<>>
    ELSE Append(PathBack(cf, cf[cur], links - 1), cf[cur])

\* find_path as a function of its inputs, the frontier iterated in ascending
\* order; rounds bounds the number of expansions
RECURSIVE SearchSorted(_, _, _)
SearchSorted(st, h, rounds) ==
    IF st.open_set = {} THEN None
    ELSE LET cur == Selected(SortedOrder(st.open_set), st.f_score)
         IN IF cur = goal
            THEN Some(PathBack(st.came_from, cur, Cardinality(DOMAIN st.came_from)))
            ELSE IF rounds = 0 THEN Pending
            ELSE SearchSorted(ExpandAll([st EXCEPT !.open_set = @ \ {cur}], cur,
                                        visit_neighbors[cur], h),
                              h, rounds - 1)

\* no search expands more nodes than this: every admission lowers a g-score
MaxRounds == Cardinality(Nodes) * (Cardinality(Nodes) * MaxWeight + 2)

FindPathSorted(h) ==
    SearchSorted([open_set |-> {start}, came_from |-> <<>>, g_score |-> (start :> 0),
                  f_score |-> (start :> [g |-> 0, h2 |-> h[start]]),
                  h_calls |-> <<start>>],
                 h, MaxRounds)

\* C6: the result is a function of start, goal, heuristic and the callback:
\* whatever order the frontier set yields its nodes in, the run returns what
\* the run that iterates the frontier in ascending order returns.
C6_ResultIndependentOfIterationOrder ==
    pc = "done" => result = FindPathSorted(heuristic)

\* a search whose last selection, of goal, had several frontier nodes to
\* iterate over, after an earlier expansion
C6_Witness ==
    /\ pc = "done"
    /\ result.tag = "Some"
    /\ Len(result.path) >= 1
    /\ Cardinality(open_set) >= 2

\* C18: find_path never aborts the process: every frontier node has a recorded
\* g-score and f-score, the node being expanded has a g-score, and a finished
\* search has returned Some or None.
C18_FindPathNeverAborts ==
    /\ result.tag # "panic"
    /\ open_set \subseteq DOMAIN g_score
    /\ open_set \subseteq DOMAIN f_score
    /\ pc = "visit" => current \in DOMAIN g_score
    /\ pc = "done" => result.tag \in {"Some", "None"}

\* the expansion of a node other than start, its cost about to be looked up,
\* while another node waits in the frontier
C18_Witness ==
    /\ pc = "visit"
    /\ current # start
    /\ pending # <<>>
    /\ open_set # {}

\* C19: the node selected for expansion or for the goal test is a frontier node
\* of minimal f-score; among frontier nodes of equal f-score it is the
\* smallest by the node ordering.
C19_SelectedNodeHasMinimalF ==
    [][(pc = "loop" /\ pc' \in {"visit", "reconstruct"}) =>
          /\ current' \in open_set
          /\ \A n \in open_set :
                /\ FLe(f_score[current'], f_score[n])
                /\ FLe(f_score[n], f_score[current']) =>
                      (n = current' \/ NodeLess(current', n))]_vars

\* C20: a reported (neighbor, weight) changes the search state only if
\* g[current] + weight is strictly less than the known g[neighbor], an unknown
\* one counting as infinity: then predecessor, g, f = g + heuristic(neighbor)
\* and frontier membership of that neighbor are set together and nothing else
\* changes; otherwise predecessor map, g, f and frontier stay as they are.
C20_RelaxationUpdatesTogetherOrNotAtAll ==
    [][(pc = "visit" /\ pending # <<>> /\ pending' = Tail(pending)) =>
          LET neighbor == Head(pending)[1]
              tentative == g_score[current] + Head(pending)[2]
          IN IF neighbor \notin DOMAIN g_score \/ tentative < g_score[neighbor]
             THEN /\ DOMAIN came_from' = DOMAIN came_from \cup {neighbor}
                  /\ came_from'[neighbor] = current
                  /\ \A n \in DOMAIN came_from \ {neighbor} : came_from'[n] = came_from[n]
                  /\ DOMAIN g_score' = DOMAIN g_score \cup {neighbor}
                  /\ g_score'[neighbor] = tentative
                  /\ \A n \in DOMAIN g_score \ {neighbor} : g_score'[n] = g_score[n]
                  /\ DOMAIN f_score' = DOMAIN f_score \cup {neighbor}
                  /\ f_score'[neighbor] = [g |-> tentative, h2 |-> heuristic[neighbor]]
                  /\ \A n \in DOMAIN f_score \ {neighbor} : f_score'[n] = f_score[n]
                  /\ open_set' = open_set \cup {neighbor}
             ELSE /\ came_from' = came_from
                  /\ g_score' = g_score
                  /\ f_score' = f_score
                  /\ open_set' = open_set]_vars

\* an expansion that has recorded one neighbor and left another, reported with
\* a tentative score above its known one, as it was
C20_Witness ==
    /\ pc = "visit"
    /\ \E i \in 1..(Len(visit_neighbors[current]) - Len(pending)) :
          LET neighbor == visit_neighbors[current][i][1]
              weight == visit_neighbors[current][i][2]
          IN /\ neighbor \in DOMAIN g_score
             /\ g_score[neighbor] < g_score[current] + weight
             /\ neighbor \notin DOMAIN came_from \/ came_from[neighbor] # current
    /\ \E m \in DOMAIN came_from : came_from[m] = current /\ m \in open_set

\* C21: every consecutive pair (a, b) of a returned sequence is an edge the
\* callback reported for a and a predecessor link; the sequence follows the
\* links from the node without predecessor up to goal's predecessor, without
\* gaps and without a repeated node.
C21_PathFollowsReportedEdges ==
    (pc = "done" /\ result.tag = "Some") =>
        LET p == result.path
        IN /\ \A i \in 1..(Len(p) - 1) :
                 /\ \E e \in EdgeSet : e[1] = p[i] /\ e[2] = p[i + 1]
                 /\ p[i + 1] \in DOMAIN came_from
                 /\ came_from[p[i + 1]] = p[i]
           /\ \A i, j \in 1..Len(p) : i # j => p[i] # p[j]
           /\ p # <<>> =>
                 /\ p[1] \notin DOMAIN came_from
                 /\ goal \in DOMAIN came_from
                 /\ came_from[goal] = p[Len(p)]
                 /\ \E e \in EdgeSet : e[1] = p[Len(p)] /\ e[2] = goal
           /\ p = <<>> => goal \notin DOMAIN came_from

\* a returned sequence of two nodes, neither linked back to the other
C21_Witness ==
    /\ pc = "done"
    /\ result.tag = "Some"
    /\ Len(result.path) = 2
    /\ <<result.path[2], result.path[1], 0>> \notin EdgeSet
    /\ <<result.path[2], result.path[1], 1>> \notin EdgeSet

\* C22: the heuristic is called once for start at initialisation and once for
\* each admission of a node to the frontier (each strictly improving
\* relaxation), and at no other time.
C22_HeuristicCalledOncePerAdmission ==
    /\ h_calls = <<start>>
    /\ [][IF /\ pc = "visit" /\ pending # <<>> /\ result' # Panic
              /\ \/ Head(pending)[1] \notin DOMAIN g_score
                 \/ g_score[current] + Head(pending)[2] < g_score[Head(pending)[1]]
           THEN /\ h_calls' = Append(h_calls, Head(pending)[1])
                /\ Head(pending)[1] \in open_set'
           ELSE h_calls' = h_calls]_vars

\* a finished search that admitted some node twice and turned down a report
C22_Witness ==
    /\ pc = "done"
    /\ Len(h_calls) > Cardinality(DOMAIN g_score)
    /\ \E e \in EdgeSet : e[1] \in DOMAIN g_score /\ e[2] = start

\* C25: the result does not depend on the heuristic: with the same start, goal
\* and callback, the search under any other heuristic returns the same
\* Some or None and the same sequence.
C25_ResultIndependentOfHeuristic ==
    pc = "done" =>
        \A h \in [Nodes -> 0..MaxH2] : FindPathSorted(h) = result

\* a search that returned a sequence under a heuristic that is not constant
\* and overestimates at start
C25_Witness ==
    /\ pc = "done"
    /\ result.tag = "Some"
    /\ Len(result.path) >= 2
    /\ heuristic[goal] > 0
    /\ heuristic[start] = 0

\* the nodes met by following predecessor links from n, at most k of them
RECURSIVE Ancestors(_, _, _)
Ancestors(cf, n, k) ==
    IF n \notin DOMAIN cf \/ k = 0 THEN <<>>
    ELSE <<cf[n]>> \o Ancestors(cf, cf[n], k - 1)

\* C26: start has no predecessor entry, and following predecessor links from
\* any recorded node reaches start within as many steps as there are entries,
\* without meeting a node twice: the predecessor map is a tree rooted at start.
C26_PredecessorsFormTreeRootedAtStart ==
    /\ start \notin DOMAIN came_from
    /\ \A n \in DOMAIN came_from :
          LET up == Ancestors(came_from, n, Cardinality(DOMAIN came_from) + 1)
          IN /\ Len(up) <= Cardinality(DOMAIN came_from)
             /\ up[Len(up)] = start
             /\ \A i, j \in 1..Len(up) : i # j => up[i] # up[j]
             /\ \A i \in 1..Len(up) : up[i] # n

\* a predecessor chain of two links whose middle node, when expanded, reported
\* a zero-weight edge back to start over a zero-weight edge from start
C26_Witness ==
    /\ pc = "done"
    /\ \E n \in DOMAIN came_from :
          /\ came_from[n] \in DOMAIN came_from
          /\ <<came_from[n], start, 0>> \in EdgeSet
          /\ <<start, came_from[n], 0>> \in EdgeSet

\* C27: when start equals goal find_path returns Some of the empty sequence
\* and never calls the neighbour callback.
C27_StartIsGoalReturnsEmptyPath ==
    start = goal =>
        /\ pc \in {"loop", "reconstruct", "done"}
        /\ pending = <<>>
        /\ came_from = <<>>
        /\ open_set = {start}
        /\ pc = "done" => result = Some(<<>>)

\* a finished search for goal = start, whose node has neighbours to report
C27_Witness ==
    /\ pc = "done"
    /\ start = goal
    /\ result = Some(<<>>)
    /\ visit_neighbors[start] # <<>>

----------------------------------------------------------------------------
(* The Bitmap on its own: no search is running *)

NoSearch ==
    /\ start = <<0, 0>>
    /\ goal = <<0, 0>>
    /\ heuristic = <<>>
    /\ visit_neighbors = <<>>
    /\ open_set = {}
    /\ came_from = <<>>
    /\ g_score = <<>>
    /\ f_score = <<>>
    /\ h_calls = <<>>
    /\ current = <<0, 0>>
    /\ pending = <<>>
    /\ total_path = <<>>
    /\ pc = "idle"
    /\ result = Pending

InitBitmap == NoSearch /\ NoBitmap /\ NoDays

SpecBitmap == InitBitmap /\ [][NextBitmap]_vars

\* Bitmap::parse alone, on the longer texts
NextParse == BitmapParseLong

SpecParse == InitBitmap /\ [][NextParse]_vars

----------------------------------------------------------------------------
(* Claims about Bitmap *)

\* (x, y) lies in [0, width) x [0, height)
InRange(pos) == 0 <= pos[1] /\ pos[1] < width /\ 0 <= pos[2] /\ pos[2] < height

\* C7: a grid built by new or by a successful parse, and changed by any
\* sequence of set calls, stores exactly width * height elements.
C7_StorageIsWidthTimesHeight ==
    Constructed => Len(elements) = width * height

\* C8: set at a coordinate outside [0, width) x [0, height) returns
\* OutOfBoundsError and changes no cell, neither dimension and not the sentinel.
C8_OutOfBoundsSetChangesNothing ==
    [][(op'.name = "set" /\ ~InRange(op'.pos)) =>
          /\ op'.ret = "Err"
          /\ elements' = elements
          /\ width' = width
          /\ height' = height
          /\ out_of_bounds' = out_of_bounds]_vars

\* a rejected set on a grid that earlier sets had changed
C8_Witness ==
    /\ op.name = "set"
    /\ op.ret = "Err"
    /\ ~InRange(op.pos)
    /\ \E i \in 1..Len(elements) : elements[i] # out_of_bounds

\* C9: set at an in-bounds coordinate returns Ok and a read at that coordinate
\* then returns the value written.
C9_SetThenGet ==
    (op.name = "set" /\ InRange(op.pos)) =>
        /\ op.ret = "Ok"
        /\ ReadAt(elements, width, height, out_of_bounds, op.pos)
               = [ret |-> "Ok", value |-> op.value]

\* C10: after new(w, h, v) with w > 0 and h > 0, is_in_bounds holds exactly on
\* [0, w) x [0, h), every coordinate in it reads v and every coordinate
\* outside it reads the sentinel, which equals v.
C10_NewReadsFillEverywhere ==
    (op.name = "new" /\ width > 0 /\ height > 0) =>
        \A pos \in Coords :
            /\ IsInBounds(width, height, pos) <=> InRange(pos)
            /\ InRange(pos) =>
                  ReadAt(elements, width, height, out_of_bounds, pos)
                      = [ret |-> "Ok", value |-> op.value]
            /\ ~InRange(pos) =>
                  /\ ReadAt(elements, width, height, out_of_bounds, pos)
                         = [ret |-> "Ok", value |-> out_of_bounds]
                  /\ out_of_bounds = op.value

\* a new grid of several rows and columns, filled with a non-default value
C10_Witness ==
    /\ op.name = "new"
    /\ width > 1
    /\ height > 1
    /\ op.value # 0
    /\ Len(elements) = width * height

\* C11: reading a grid built by new or by a successful parse, and changed by
\* any sequence of set calls, never fails: an in-bounds coordinate maps to an
\* existing storage element and is read from it, an out-of-bounds coordinate
\* reads the sentinel.
C11_ReadNeverFails ==
    /\ op.name = "index" => op.ret = "Ok"
    /\ Constructed =>
          \A pos \in Coords :
              /\ InRange(pos) =>
                    /\ FlattenIndex(width, pos) + 1 \in DOMAIN elements
                    /\ ReadAt(elements, width, height, out_of_bounds, pos) =
                           [ret |-> "Ok", value |-> elements[FlattenIndex(width, pos) + 1]]
              /\ ~InRange(pos) =>
                    ReadAt(elements, width, height, out_of_bounds, pos) =
                        [ret |-> "Ok", value |-> out_of_bounds]

\* C17: positions yields exactly width * height coordinates: every in-bounds
\* coordinate exactly once and no other, row by row (y outer, x inner); a fresh
\* call yields the same sequence again.
C17_PositionsRowMajor ==
    op.name = "positions" =>
        LET ps == op.yielded
        IN /\ Len(ps) = width * height
           /\ \A i \in 1..Len(ps) : IsInBounds(width, height, ps[i])
           /\ \A pos \in Coords :
                 InRange(pos) => Cardinality({i \in 1..Len(ps) : ps[i] = pos}) = 1
           /\ \A i, j \in 1..Len(ps) :
                 i < j => \/ ps[i][2] < ps[j][2]
                          \/ (ps[i][2] = ps[j][2] /\ ps[i][1] < ps[j][1])
           /\ Positions(width, height) = ps

\* the positions of a grid of two rows and two columns that sets have changed
C17_Witness ==
    /\ op.name = "positions"
    /\ width = 2
    /\ height = 2
    /\ Len(op.yielded) = 4
    /\ \E i \in 1..Len(elements) : elements[i] # out_of_bounds

\* C23: for every grid and every in-bounds (x, y), flatten_index is
\* x + y * width, lies in [0, width * height) and differs between different
\* in-bounds coordinates; the i-th coordinate positions yields has index i.
C23_FlattenIndexIsSoundAndInjective ==
    Constructed =>
        /\ \A pos \in Coords :
              InRange(pos) =>
                  /\ FlattenIndex(width, pos) = pos[1] + pos[2] * width
                  /\ 0 <= FlattenIndex(width, pos)
                  /\ FlattenIndex(width, pos) < width * height
                  /\ \A other \in Coords :
                        (InRange(other) /\ other # pos) =>
                            FlattenIndex(width, other) # FlattenIndex(width, pos)
        /\ \A i \in 1..Len(Positions(width, height)) :
              FlattenIndex(width, Positions(width, height)[i]) = i - 1

\* a write through flatten_index to the last cell of a grid of two columns
\* and two rows
C23_Witness ==
    /\ op.name = "set"
    /\ op.ret = "Ok"
    /\ width = 2
    /\ height = 2
    /\ op.pos = <<1, 1>>
    /\ elements[4] = op.value

\* C28: a successful set at an in-bounds (x, y) changes the cell at (x, y) and
\* nothing else: every other cell, the width, the height and the sentinel keep
\* their values, and out-of-bounds reads still give the sentinel.
C28_SetChangesOnlyItsCell ==
    [][(op'.name = "set" /\ op'.ret = "Ok") =>
          LET k == op'.pos[1] + op'.pos[2] * width + 1
          IN /\ InRange(op'.pos)
             /\ DOMAIN elements' = DOMAIN elements
             /\ elements'[k] = op'.value
             /\ \A i \in DOMAIN elements \ {k} : elements'[i] = elements[i]
             /\ width' = width
             /\ height' = height
             /\ out_of_bounds' = out_of_bounds
             /\ \A pos \in Coords :
                   ~InRange(pos) =>
                       ReadAt(elements', width', height', out_of_bounds', pos) =
                           [ret |-> "Ok", value |-> out_of_bounds]]_vars

\* a successful set of a value other than the sentinel, next to a cell that
\* still holds another value
C28_Witness ==
    /\ op.name = "set"
    /\ op.ret = "Ok"
    /\ op.value # out_of_bounds
    /\ Len(elements) >= 2
    /\ \E i \in 1..Len(elements) : elements[i] # op.value

----------------------------------------------------------------------------
(* Claims about Bitmap::parse *)

\* the lines of the parsed text, and the parser as it was handed to parse
TextLines == Lines(op.text)
FreshParser == [kind |-> parser.kind, start |-> <<>>, goal |-> <<>>]

\* every character of the lines from line y on with its position, row by row
RECURSIVE RowMajorCalls(_, _)
RowMajorCalls(lines, y) ==
    IF y >= Len(lines) THEN <<>>
    ELSE [i \in 1..Len(lines[y + 1]) |-> <<(<<i - 1, y>>), lines[y + 1][i]>>]
         \o RowMajorCalls(lines, y + 1)

\* whether the mapping function yields an element for the character of a call
Mapped(call) == ParseElement(FreshParser, call[1], call[2]).some

\* the lines whose character count differs from the first line's
MismatchedLines == {k \in 2..Len(TextLines) : Len(TextLines[k]) # Len(TextLines[1])}

\* C12: parse fails with a width-mismatch error whenever some line's character
\* count differs from the first line's, and the error cites the first such
\* line; the failure is a function of the text.
C12_WidthMismatchCitesFirstOffendingLine ==
    (op.name = "parse" /\ MismatchedLines # {}) =>
        /\ op.ret = "Err"
        /\ op.err.kind = "width"
        /\ op.err.line = TextLines[SetMin(MismatchedLines)]
        /\ op.err = Parse(FreshParser, op.text).err

\* the position of the character a failed parse stopped at
FailedAt(calls) == calls[Len(calls)][1]

\* C13: when the mapping function yields no element for a character, parse
\* fails with an invalid-element error that identifies the character and its
\* (x, y) position: no parse that stops at another position fails with the
\* same error.
C13_InvalidElementCitesCharAndPosition ==
    (op.name = "parse" /\ op.calls # <<>> /\ ~Mapped(op.calls[Len(op.calls)])) =>
        /\ op.ret = "Err"
        /\ op.err.kind = "element"
        /\ op.err.char = op.calls[Len(op.calls)][2]
        /\ \A p \in Parsers, t \in Texts :
              LET r == Parse(p, t)
              IN r.err = op.err => FailedAt(r.calls) = FailedAt(op.calls)

\* C14: a failed parse stops at once. After the first unmapped character the
\* mapping function is called for no further character; after the first width
\* mismatch it is called for no character of the offending line or a later
\* one; and no grid, partial or complete, comes back.
C14_ParseFailuresAbortImmediately ==
    (op.name = "parse" /\ op.ret = "Err") =>
        LET all == RowMajorCalls(TextLines, 0)
            n == Len(op.calls)
        IN /\ elements = <<>> /\ width = 0 /\ height = 0
           /\ ~Constructed
           /\ n <= Len(all)
           /\ op.calls = SubSeq(all, 1, n)
           /\ \A i \in 1..(n - 1) : Mapped(op.calls[i])
           /\ op.err.kind = "element" => n >= 1 /\ ~Mapped(op.calls[n])
           /\ op.err.kind = "width" =>
                 \E k \in 2..Len(TextLines) :
                     /\ TextLines[k] = op.err.line
                     /\ \A j \in 1..(k - 1) : TextLines[j] # op.err.line
                     /\ op.calls = RowMajorCalls(SubSeq(TextLines, 1, k - 1), 0)
                     /\ (n = 0 \/ Mapped(op.calls[n]))

\* a width mismatch on the third line, whose own characters are unmapped,
\* after two lines that were mapped
C14_Witness ==
    /\ op.name = "parse"
    /\ op.err.kind = "width"
    /\ Len(TextLines) >= 3
    /\ op.err.line = TextLines[3]
    /\ Len(op.calls) = 2
    /\ parser.kind = "table"
    /\ op.err.line # <<>>
    /\ \A i \in 1..Len(op.err.line) : op.err.line[i] \notin {CharA, CharA + 1}

\* C15: a successful parse of a text whose lines have equal character counts
\* yields a grid whose width is the character count of the first line, whose
\* height is the number of lines and whose cell (x, y) is the element the
\* mapping function returned for the x-th character of line y.
C15_ParsedGridHoldsMappedCharacters ==
    (op.name = "parse" /\ op.ret = "Ok" /\ MismatchedLines = {}) =>
        /\ width = (IF TextLines = <<>> THEN 0 ELSE Len(TextLines[1]))
        /\ height = Len(TextLines)
        /\ \A y \in 0..(Len(TextLines) - 1) :
              \A x \in 0..(Len(TextLines[y + 1]) - 1) :
                  ReadAt(elements, width, height, out_of_bounds, <<x, y>>) =
                      [ret |-> "Ok",
                       value |-> ParseElement(FreshParser, <<x, y>>,
                                              TextLines[y + 1][x + 1]).value]

\* the position of the last call for character c, <<>> when there is none
LastMarker(calls, c) ==
    LET at == {i \in 1..Len(calls) : calls[i][2] = c}
    IN IF at = {} THEN <<>> ELSE calls[CHOOSE i \in at : \A j \in at : j <= i][1]

\* C16: a successful parse calls the mapping function exactly once per
\* character of the lines, row by row, with that character's (x, y) position,
\* and the parser that comes back has seen all of these calls: day 12's holds
\* the positions of the last 'S' and the last 'E' scanned.
C16_MappingCalledOncePerCharRowMajor ==
    (op.name = "parse" /\ op.ret = "Ok") =>
        /\ op.calls = RowMajorCalls(TextLines, 0)
        /\ parser.kind = "day12" =>
              /\ parser.start = LastMarker(op.calls, CharS)
              /\ parser.goal = LastMarker(op.calls, CharE)

\* day 12's parser after a text of three lines with two 'S' and an 'E'
C16_Witness ==
    /\ op.name = "parse"
    /\ op.ret = "Ok"
    /\ parser.kind = "day12"
    /\ height = 3
    /\ Cardinality({i \in 1..Len(op.calls) : op.calls[i][2] = CharS}) = 2
    /\ parser.start = <<0, 2>>
    /\ parser.goal = <<0, 1>>

----------------------------------------------------------------------------
(* Day 12: the search over a parsed heightmap *)

\* the heightmaps have at most MaxRows rows
MaxRows == 2
\* and at most MaxWalls cells raised to 'z'
MaxWalls == 2

\* Elevation::can_visit_from
CanVisitFrom(self, other) == self <= other + 1

\* run_a_star's heuristic, as the square of the Euclidean distance it returns
Day12Heuristic(g, n) ==
    (g[1] - n[1]) * (g[1] - n[1]) + (g[2] - n[2]) * (g[2] - n[2])

\* one try_visit of run_a_star's neighbour callback
TryVisit(els, w, h, oob, n, d) ==
    LET position == <<n[1] + d[1], n[2] + d[2]>>
    IN IF /\ IsInBounds(w, h, position)
          /\ CanVisitFrom(IndexOf(els, w, h, oob, position), IndexOf(els, w, h, oob, n))
       THEN <<(<<position, 1>>)>>
       ELSE <<>>

\* run_a_star's neighbour callback: left, right, up, down
Day12Visits(els, w, h, oob, n) ==
    TryVisit(els, w, h, oob, n, <<-1, 0>>) \o TryVisit(els, w, h, oob, n, <<1, 0>>)
    \o TryVisit(els, w, h, oob, n, <<0, -1>>) \o TryVisit(els, w, h, oob, n, <<0, 1>>)

\* the heightmap texts: each row climbs from 'a' to 'z' one letter a cell, the
\* first row from 'S' to 'E'; the cells in walls hold 'z' instead
RowLen == CharZ - CharA + 1
NoWall == <<-1, -1>>
WallCells(rows) ==
    ((0..(RowLen - 1)) \X (0..(rows - 1))) \ {<<0, 0>>, <<RowLen - 1, 0>>}
WallSets(rows) ==
    {{w[i] : i \in 1..MaxWalls} \ {NoWall} :
        w \in [1..MaxWalls -> WallCells(rows) \cup {NoWall}]}
HeightmapRow(y, walls) ==
    [i \in 1..RowLen |->
        IF <<i - 1, y>> \in walls THEN CharZ
        ELSE IF y = 0 /\ i = 1 THEN CharS
        ELSE IF y = 0 /\ i = RowLen THEN CharE
        ELSE CharA + i - 1]
RECURSIVE HeightmapText(_, _, _)
HeightmapText(y, rows, walls) ==
    IF y >= rows THEN <<>>
    ELSE HeightmapRow(y, walls) \o <<LF>> \o HeightmapText(y + 1, rows, walls)

\* Hills::from_str, then run_a_star(&hills, start) for the start of part 1
\* (the 'S' cell) or one of part 2 (a cell of elevation 0)
InitHills ==
    \E rows \in 1..MaxRows :
      \E walls \in WallSets(rows) :
        \E r \in {Parse([kind |-> "day12", start |-> <<>>, goal |-> <<>>],
                        HeightmapText(0, rows, walls))} :
          \E cells \in {{<<x, y>> : x \in 0..(r.width - 1), y \in 0..(r.height - 1)}} :
            /\ r.ok
            /\ r.parser.start # <<>>
            /\ r.parser.goal # <<>>
            /\ elements = r.elements
            /\ width = r.width
            /\ height = r.height
            /\ out_of_bounds = r.out_of_bounds
            /\ parser = r.parser
            /\ op = [NoOp EXCEPT !.name = "parse",
                                 !.text = HeightmapText(0, rows, walls),
                                 !.calls = r.calls]
            /\ start \in {r.parser.start} \cup
                   {n \in cells :
                       IndexOf(r.elements, r.width, r.height, r.out_of_bounds, n) = 0}
            /\ goal = r.parser.goal
            /\ heuristic = [n \in cells |-> Day12Heuristic(r.parser.goal, n)]
            /\ visit_neighbors =
                   [n \in cells |->
                       Day12Visits(r.elements, r.width, r.height, r.out_of_bounds, n)]
            /\ FindPathInit
            /\ NoDays

SpecHills == InitHills /\ [][NextAStar]_vars

\* the nodes some walk from the nodes of S leads to
RECURSIVE Closure(_, _)
Closure(S, E) ==
    LET T == S \cup {e[2] : e \in {e \in E : e[1] \in S}}
    IN IF T = S THEN S ELSE Closure(T, E)

\* C4: on the 4-connected grid of day 12, whose callback skips the cells too
\* high to step on, find_path returns Some exactly when goal is reachable from
\* start: None behind a separating wall, Some once a wall cell is removed.
C4_SomeIffReachable ==
    pc = "done" =>
        /\ result.tag \in {"Some", "None"}
        /\ result.tag = "Some" <=> goal \in Closure({start}, EdgeSet)

\* a search that found its way through a two-row heightmap with a wall cell
C4_Witness ==
    /\ pc = "done"
    /\ result.tag = "Some"
    /\ height > 1
    /\ \E n \in Nodes :
          /\ n[1] < RowLen - 2
          /\ IndexOf(elements, width, height, out_of_bounds, n) = CharZ - CharA

----------------------------------------------------------------------------
(* The CLI harness: load_challenges, run_challenges, wrap_main *)

\* the command line names at most MaxFiles input files
MaxFiles == 3

FileNames == {"a.txt", "b.txt"}

\* an input file: its name, whether read_to_string succeeds on it and whether
\* the solver returns Ok for it
InputFiles == [name : FileNames, readable : BOOLEAN, solves : BOOLEAN]
CommandLines == UNION {[1..n -> InputFiles] : n \in 0..MaxFiles}

\* the errors wrap_main logs: the context put on them, and for a failed file
\* its one-based index and its name
LoadError == [context |-> "cannot load challenges", index |-> 0, name |-> ""]
FileError(i, name) == [context |-> "file failed", index |-> i, name |-> name]

\* wrap_main is entered: nothing is loaded, nothing has run
InitHarness ==
    /\ NoSearch
    /\ NoBitmap
    /\ cave = NoCave
    /\ rope = NoRope
    /\ \E files \in CommandLines :
          harness = [pc |-> "load", files |-> files, loaded |-> 0, i |-> 0,
                     ran |-> <<>>, infos |-> <<>>, errors |-> <<>>,
                     status |-> "running"]

\* load_challenges: one iteration of its loop over args.input_files
HarnessLoadFile ==
    /\ harness.pc = "load"
    /\ harness.loaded < Len(harness.files)
    /\ IF harness.files[harness.loaded + 1].readable
       THEN harness' = [harness EXCEPT !.loaded = @ + 1]
       ELSE harness' = [harness EXCEPT !.errors = Append(@, LoadError),
                                       !.status = "exit 1",
                                       !.pc = "exit"]
    /\ UNCHANGED <<astar_vars, bitmap_vars, parser, op, cave, rope>>

\* load_challenges returns Ok(challenges)
HarnessLoaded ==
    /\ harness.pc = "load"
    /\ harness.loaded = Len(harness.files)
    /\ harness' = [harness EXCEPT !.pc = "run"]
    /\ UNCHANGED <<astar_vars, bitmap_vars, parser, op, cave, rope>>

\* a loop that logs a failed file and goes on to the next one
HarnessRunFileKeepsGoing ==
    /\ harness.pc = "run"
    /\ harness.i < Len(harness.files)
    /\ LET n == harness.i + 1
           file == harness.files[n]
       IN IF file.solves
          THEN harness' = [harness EXCEPT !.i = n,
                                          !.infos = Append(@, <<n, file.name>>),
                                          !.ran = Append(@, n)]
          ELSE harness' = [harness EXCEPT !.i = n,
                                          !.infos = Append(@, <<n, file.name>>),
                                          !.ran = Append(@, n),
                                          !.errors = Append(@, FileError(n, file.name)),
                                          !.status = "exit 1"]
    /\ UNCHANGED <<astar_vars, bitmap_vars, parser, op, cave, rope>>

\* run_challenges: one iteration of its loop: the info line, the solver, and
\* on Err the context, wrap_main's error line and exit(1)
HarnessRunFile ==
    /\ harness.pc = "run"
    /\ harness.i < Len(harness.files)
    /\ LET n == harness.i + 1
           file == harness.files[n]
       IN IF file.solves
          THEN harness' = [harness EXCEPT !.i = n,
                                          !.infos = Append(@, <<n, file.name>>),
                                          !.ran = Append(@, n)]
          ELSE harness' = [harness EXCEPT !.i = n,
                                          !.infos = Append(@, <<n, file.name>>),
                                          !.ran = Append(@, n),
                                          !.errors = Append(@, FileError(n, file.name)),
                                          !.status = "exit 1",
                                          !.pc = "exit"]
    /\ UNCHANGED <<astar_vars, bitmap_vars, parser, op, cave, rope>>

\* run_challenges returns Ok(()), wrap_main returns, main ends: status 0
HarnessReturn ==
    /\ harness.pc = "run"
    /\ harness.i = Len(harness.files)
    /\ harness' = [harness EXCEPT !.pc = "exit",
                                   !.status = IF @ = "running" THEN "exit 0" ELSE @]
    /\ UNCHANGED <<astar_vars, bitmap_vars, parser, op, cave, rope>>

NextHarness ==
    \/ HarnessLoadFile
    \/ HarnessLoaded
    \/ HarnessRunFile
    \/ HarnessReturn

SpecHarness == InitHarness /\ [][NextHarness]_vars

\* the files whose solver returns an error
FailingFiles == {k \in 1..Len(harness.files) : ~harness.files[k].solves}

\* C24: the harness runs the solver on the input files in command-line order
\* and stops at the first file whose solver returns an error: no later file
\* is run, the error is logged with that file's index and name, and the
\* process exits with status 1; if every file succeeds the exit status is 0.
\* (A file that cannot be read ends the process before any solver runs.)
C24_HarnessStopsAtFirstFailingFile ==
    /\ \A j \in 1..Len(harness.ran) : harness.ran[j] = j
    /\ \A j \in 1..(Len(harness.ran) - 1) : harness.files[j].solves
    /\ harness.pc = "exit" =>
          IF \E k \in 1..Len(harness.files) : ~harness.files[k].readable
          THEN /\ harness.ran = <<>>
               /\ harness.status = "exit 1"
               /\ harness.errors = <<LoadError>>
          ELSE IF FailingFiles # {}
          THEN /\ Len(harness.ran) = SetMin(FailingFiles)
               /\ harness.status = "exit 1"
               /\ harness.errors =
                      <<FileError(SetMin(FailingFiles),
                                  harness.files[SetMin(FailingFiles)].name)>>
          ELSE /\ Len(harness.ran) = Len(harness.files)
               /\ harness.status = "exit 0"
               /\ harness.errors = <<>>

\* three files, the second fails, the third would have succeeded
C24_Witness ==
    /\ harness.pc = "exit"
    /\ Len(harness.files) = 3
    /\ harness.files[1].solves
    /\ ~harness.files[2].solves
    /\ harness.files[3].solves
    /\ harness.ran = <<1, 2>>
    /\ harness.status = "exit 1"

----------------------------------------------------------------------------
(* Day 9: the Rope *)

\* the head stays within 0..MaxRopeX by 0..MaxRopeY
MaxRopeX == 2
MaxRopeY == 2

\* count_visited_tiles::<2> and count_visited_tiles::<10>
RopeLengths == {2, 10}

\* the (dx, dy) of "L", "R", "U" and "D"
UnitSteps == {<<-1, 0>>, <<1, 0>>, <<0, -1>>, <<0, 1>>}

\* i32::abs
Abs(n) == IF n < 0 THEN -n ELSE n

\* a loop whose knots follow on a horizontal separation only
RECURSIVE FollowHeadXOnly(_, _, _)
FollowHeadXOnly(new, old, tail_index) ==
    IF tail_index > Len(new) THEN new
    ELSE LET new_head == new[tail_index - 1]
             old_head == old[tail_index - 1]
             tail == new[tail_index]
         IN FollowHeadXOnly([new EXCEPT ![tail_index] =
                                IF Abs(new_head[1] - tail[1]) >= 2
                                THEN old_head ELSE tail],
                            old, tail_index + 1)

\* the loop of move_head over tail_index, from tail_index on; old is
\* self.knots, new is new_knots; indices are one-based
RECURSIVE FollowHead(_, _, _)
FollowHead(new, old, tail_index) ==
    IF tail_index > Len(new) THEN new
    ELSE LET new_head == new[tail_index - 1]
             old_head == old[tail_index - 1]
             tail == new[tail_index]
         IN FollowHead([new EXCEPT ![tail_index] =
                           IF \/ Abs(new_head[1] - tail[1]) >= 2
                              \/ Abs(new_head[2] - tail[2]) >= 2
                           THEN old_head ELSE tail],
                       old, tail_index + 1)

\* Rope::move_head
MoveHead(knots, dx, dy) ==
    FollowHead([knots EXCEPT ![1] = <<@[1] + dx, @[2] + dy>>], knots, 2)

\* Rope::default(): every knot at the origin
InitRope ==
    /\ NoSearch
    /\ NoBitmap
    /\ harness = NoHarness
    /\ cave = NoCave
    /\ \E len \in RopeLengths : rope = [i \in 1..len |-> <<0, 0>>]

\* history.move_head(&mut rope, dx, dy) for one step of an input line
RopeMoveHead ==
    /\ rope # NoRope
    /\ \E d \in UnitSteps :
          /\ rope[1][1] + d[1] \in 0..MaxRopeX
          /\ rope[1][2] + d[2] \in 0..MaxRopeY
          /\ rope' = MoveHead(rope, d[1], d[2])
    /\ UNCHANGED <<astar_vars, bitmap_vars, parser, op, harness, cave>>

NextRope == RopeMoveHead

SpecRope == InitRope /\ [][NextRope]_vars

\* C30: starting from the default rope and after any sequence of move_head
\* calls with unit steps, every two consecutive knots are within distance 1
\* on both axes, for the rope lengths 2 and 10.
C30_ConsecutiveKnotsStayAdjacent ==
    \A i \in 1..(Len(rope) - 1) :
        /\ Abs(rope[i][1] - rope[i + 1][1]) <= 1
        /\ Abs(rope[i][2] - rope[i + 1][2]) <= 1

\* a rope of ten knots whose last knot has followed one column across and
\* two rows up, and whose second knot sits diagonally behind the head
C30_Witness ==
    /\ Len(rope) = 10
    /\ rope[10] = <<1, 2>>
    /\ Abs(rope[1][1] - rope[2][1]) = 1
    /\ Abs(rope[1][2] - rope[2][2]) = 1

----------------------------------------------------------------------------
(* Day 14: the Cave *)

\* caves are at most MaxCaveWidth wide and MaxCaveHeight high and hold at
\* most MaxRocks rock tiles
MaxCaveWidth == 3
MaxCaveHeight == 3
MaxRocks == 3

\* enum Tile, repr(u8)
Blank == 0
Rock == 1
Sand == 2

\* Bitmap::set as a function: the outcome and the storage after it
SetAt(els, w, h, pos, v) ==
    IF IsInBounds(w, h, pos)
    THEN [ret |-> "Ok", elements |-> [els EXCEPT ![FlattenIndex(w, pos) + 1] = v]]
    ELSE [ret |-> "Err", elements |-> els]

\* Cave::get
CaveGet(els, w, h, oob, has_floor, point) ==
    IF has_floor /\ point[2] > AsI32(h) THEN Rock
    ELSE IndexOf(els, w, h, oob, point)

\* a move that leaves the tile at its source as well
CaveMoveTileKeepsSource(els, w, h, oob, has_floor, from, to) ==
    IF CaveGet(els, w, h, oob, has_floor, to) = Blank
    THEN LET ok == SetAt(els, w, h, to, CaveGet(els, w, h, oob, has_floor, from))
         IN [ret |-> IF ok.ret = "Ok" THEN "Ok(true)" ELSE "Err",
             elements |-> ok.elements]
    ELSE [ret |-> "Ok(false)", elements |-> els]

\* Cave::move_tile
CaveMoveTile(els, w, h, oob, has_floor, from, to) ==
    IF CaveGet(els, w, h, oob, has_floor, to) = Blank
    THEN LET ok == SetAt(els, w, h, to, CaveGet(els, w, h, oob, has_floor, from))
             cleared == SetAt(ok.elements, w, h, from, Blank)
         IN [ret |-> IF ok.ret = "Ok" THEN "Ok(true)" ELSE "Err",
             elements |-> cleared.elements]
    ELSE [ret |-> "Ok(false)", elements |-> els]

\* SimulationStats::move_tile
StatsMoveTile(stats, ret) ==
    IF ret = "Ok(true)" THEN [stats EXCEPT !.moved_tiles = @ + 1]
    ELSE IF ret = "Err" THEN [stats EXCEPT !.out_of_bounds_writes = @ + 1]
    ELSE stats

\* SimulationStats::default()
NoStats == [out_of_bounds_writes |-> 0, moved_tiles |-> 0]

\* no tile move was tried
NoMove == [ret |-> "none", from |-> <<0, 0>>, to |-> <<0, 0>>]

\* the rock tiles Cave::from_play_area draws
RockSets(w, h) ==
    {R \in SUBSET ((0..(w - 1)) \X (0..(h - 1))) : Cardinality(R) <= MaxRocks}

\* do_part up to its loop: the cave of the play area, the floor flag, the
\* first unit of sand at the source; simulate is about to start
InitCave ==
    /\ NoSearch
    /\ parser = NoParser
    /\ op = NoOp
    /\ harness = NoHarness
    /\ rope = NoRope
    /\ \E w \in 1..MaxCaveWidth, h \in 1..MaxCaveHeight :
          \E rocks \in RockSets(w, h), source \in (0..(w - 1)) \X (0..(h - 1)),
             with_floor \in BOOLEAN :
             /\ width = w
             /\ height = h
             /\ out_of_bounds = Blank
             /\ elements =
                    SetAt([i \in 1..(w * h) |->
                              IF Positions(w, h)[i] \in rocks THEN Rock ELSE Blank],
                          w, h, source, Sand).elements
             /\ cave = [pc |-> "simulate", has_floor |-> with_floor,
                        sand_source |-> source, y |-> h - 1, pass |-> 1, x |-> 0,
                        stats |-> NoStats, units_of_sand |-> 0, last |-> NoMove]

\* the condition and the destination of the three inner loops of simulate
CaveWants(els, w, h, oob, c) ==
    LET here == <<c.x, c.y>>
        below == <<c.x, c.y + 1>>
        get(pt) == CaveGet(els, w, h, oob, c.has_floor, pt)
    IN IF c.pass = 1 THEN get(here) = Sand /\ get(below) = Blank
       ELSE IF c.pass = 2
       THEN get(here) = Sand /\ get(below) # Blank /\ get(<<c.x - 1, c.y + 1>>) = Blank
       ELSE get(here) = Sand /\ get(below) # Blank /\ get(<<c.x + 1, c.y + 1>>) = Blank

CaveTarget(c) ==
    IF c.pass = 1 THEN <<c.x, c.y + 1>>
    ELSE IF c.pass = 2 THEN <<c.x - 1, c.y + 1>>
    ELSE <<c.x + 1, c.y + 1>>

\* the loop position after this iteration: x ascending in the first two
\* inner loops, descending in the third, y descending
CaveAdvance(c, w) ==
    IF c.pass \in {1, 2}
    THEN IF c.x + 1 < w THEN [c EXCEPT !.x = @ + 1]
         ELSE [c EXCEPT !.pass = @ + 1, !.x = IF c.pass = 1 THEN 0 ELSE w - 1]
    ELSE IF c.x - 1 >= 0 THEN [c EXCEPT !.x = @ - 1]
         ELSE IF c.y - 1 >= 0 THEN [c EXCEPT !.y = @ - 1, !.pass = 1, !.x = 0]
              ELSE [c EXCEPT !.pc = "simulated"]

\* one iteration of an inner loop of Cave::simulate
CaveVisit ==
    /\ cave.pc = "simulate"
    /\ IF CaveWants(elements, width, height, out_of_bounds, cave)
       THEN LET r == CaveMoveTile(elements, width, height, out_of_bounds,
                                  cave.has_floor, <<cave.x, cave.y>>, CaveTarget(cave))
            IN /\ elements' = r.elements
               /\ cave' = [CaveAdvance(cave, width) EXCEPT
                              !.stats = StatsMoveTile(@, r.ret),
                              !.last = [ret |-> r.ret, from |-> <<cave.x, cave.y>>,
                                        to |-> CaveTarget(cave)]]
       ELSE /\ elements' = elements
            /\ cave' = [CaveAdvance(cave, width) EXCEPT !.last = NoMove]
    /\ UNCHANGED <<astar_vars, width, height, out_of_bounds, parser, op, harness, rope>>

\* simulate returns its stats; the rest of do_part's loop body: break, or add
\* a unit of sand when nothing moved, and simulate again
CaveAfterSimulate ==
    /\ cave.pc = "simulated"
    /\ IF \/ cave.stats.out_of_bounds_writes > 0
          \/ CaveGet(elements, width, height, out_of_bounds, cave.has_floor,
                     cave.sand_source) = Sand
       THEN /\ cave' = [cave EXCEPT !.pc = "done", !.last = NoMove]
            /\ UNCHANGED elements
       ELSE /\ elements' =
                   IF cave.stats.moved_tiles = 0
                   THEN SetAt(elements, width, height, cave.sand_source, Sand).elements
                   ELSE elements
            /\ cave' = [cave EXCEPT !.pc = "simulate",
                                    !.units_of_sand =
                                        IF cave.stats.moved_tiles = 0 THEN @ + 1 ELSE @,
                                    !.y = height - 1, !.pass = 1, !.x = 0,
                                    !.stats = NoStats, !.last = NoMove]
    /\ UNCHANGED <<astar_vars, width, height, out_of_bounds, parser, op, harness, rope>>

NextCave ==
    \/ CaveVisit
    \/ CaveAfterSimulate

SpecCave == InitCave /\ [][NextCave]_vars

\* the number of tiles of one kind in the bitmap
TileCount(els, t) == Cardinality({i \in 1..Len(els) : els[i] = t})

\* C29: in simulate, every tile move either keeps the number of Sand tiles
\* and counts one moved tile (destination in bounds) or removes exactly one
\* Sand tile and counts one out_of_bounds_write (destination outside the
\* bitmap); Rock tiles are never changed and the Sand count never grows.
C29_SimulateConservesSand ==
    [][cave.pc = "simulate" =>
          /\ \A i \in 1..Len(elements) : (elements[i] = Rock) <=> (elements'[i] = Rock)
          /\ TileCount(elements', Sand) <= TileCount(elements, Sand)
          /\ IF cave'.last.ret = "none"
             THEN /\ elements' = elements
                  /\ cave'.stats = cave.stats
             ELSE IF IsInBounds(width, height, cave'.last.to)
             THEN /\ TileCount(elements', Sand) = TileCount(elements, Sand)
                  /\ cave'.stats = [cave.stats EXCEPT !.moved_tiles = @ + 1]
             ELSE /\ TileCount(elements', Sand) = TileCount(elements, Sand) - 1
                  /\ cave'.stats = [cave.stats EXCEPT !.out_of_bounds_writes = @ + 1]]_vars

\* a unit of sand has just left the bitmap sideways, past a rock, after an
\* earlier unit came to rest
C29_Witness ==
    /\ cave.pc \in {"simulate", "simulated"}
    /\ cave.last.ret = "Err"
    /\ cave.last.to[1] \notin 0..(width - 1)
    /\ cave.stats.out_of_bounds_writes = 1
    /\ cave.units_of_sand >= 1
    /\ TileCount(elements, Rock) >= 1
    /\ TileCount(elements, Sand) >= 1

====
